---- MODULE Spec2Model ----
(***************************************************************************)
(* Model of backend/app.py: the four request handlers of the face          *)
(* registration service (register_face, recognize_face,                    *)
(* get_registered_faces, delete_face) over the two JSON stores             *)
(* faces_data.json (embedding pipeline, model 'face_recognition') and      *)
(* deepface_data.json (verification pipeline, model 'deepface').           *)
(*                                                                         *)
(* Requests are handled one at a time, but for SpecRace, where two          *)
(* register_face requests interleave.  A store is a Python dict that       *)
(* round-trips through JSON, so it is modelled as the sequence of its      *)
(* items in insertion order.  Names are 1..MaxNames, ordered as the        *)
(* strings they stand for; NoName stands for a missing or empty name.      *)
(* A face encoding is a point 0..MaxEnc on a line and face_distance is     *)
(* the Euclidean distance between two points, in fifths.  The record       *)
(* field 'timestamp' is left out: no handler reads it.                     *)
(***************************************************************************)
EXTENDS Integers, Sequences, FiniteSets

\* ------------------------------------------------------------------ bounds
MaxNames == 2
MaxEnc == 4
MaxFaces == 2
MaxVerifyDistance == 3

\* --------------------------------------------------------------- constants
\* 1.0 in fifths: a distance or confidence x stands for x / 5.
One == 5
\* recognition_threshold = 0.6
EmbeddingThreshold == 3
\* recognition_threshold = 0.4
DeepfaceThreshold == 2
\* float('inf'): above every distance of the model.
FloatInf == 1000
\* a missing or empty name: data.get('name') is None or ''
NoName == 0

Names == 1..MaxNames
Encodings == 0..MaxEnc
Models == {"face_recognition", "deepface"}

\* The image field of a request body.  "missing": absent or ''; "garbage":
\* a string base64_to_image cannot decode; "picture": a decodable image
\* with `faces` detectable faces and the encoding `enc` of its face.
\* `saves` tells whether image.save(path, "JPEG") succeeds in this request:
\* it raises for a mode JPEG cannot hold (an RGBA PNG), for a name that is
\* no file name ('a/b') and on an I/O error.
MissingImage == [kind |-> "missing", faces |-> 0, enc |-> 0, saves |-> FALSE]
GarbageImage == [kind |-> "garbage", faces |-> 0, enc |-> 0, saves |-> FALSE]
Pictures ==
    { [kind |-> "picture", faces |-> f, enc |-> e, saves |-> j] :
        f \in 0..MaxFaces, e \in Encodings, j \in BOOLEAN }
\* The request images of the model: an encoding matters only with exactly
\* one face, and one picture stands for those whose save fails.
Images ==
    {MissingImage, GarbageImage}
        \cup { p \in Pictures :
                 /\ p.faces = 1 \/ p.enc = 0
                 /\ p.saves \/ (p.faces = 1 /\ p.enc = 0) }

\* Outcome of one DeepFace.verify call: a distance in fifths, or an
\* exception (enforce_detection finds no face, a model error).
VerifyFail == 0 - 1
VerifyOutcomes == {VerifyFail} \cup (0..MaxVerifyDistance)

VARIABLES
    faces_data,       \* faces_data.json: items [name, encoding] in order
    deepface_data,    \* deepface_data.json: items [name, image_path]
    deepface_files,   \* names n with registered_faces/deepface/<n>.jpg
    req,              \* the request handled last
    resp,             \* its response
    steps,            \* what the handler did, in order
    scan,             \* the comparisons of its matching loop, in order
    best_match,       \* locals of the matching loop at its end
    best_distance,
    redelete,         \* history: the request repeats a delete answered 200
    workers,          \* the register_face requests that run side by side
    last_writer       \* history: per model, the worker that wrote its store
                      \* last

vars ==
    <<faces_data, deepface_data, deepface_files, req, resp, steps, scan,
      best_match, best_distance, redelete, workers, last_writer>>

\* ------------------------------------------------------------ dict helpers
RECURSIVE Keys(_)
Keys(d) == IF d = <<>> THEN <<>> ELSE <<Head(d).name>> \o Keys(Tail(d))

KeySet(d) == { d[i].name : i \in 1..Len(d) }

\* name in d
Has(d, n) == n \in KeySet(d)

\* del d[n]: the other items keep their order
DelNothing(d, n) == d

DelAll(d, n) == <<>>

RECURSIVE Del(_, _)
Del(d, n) ==
    IF d = <<>> THEN <<>>
    ELSE IF Head(d).name = n THEN Del(Tail(d), n)
    ELSE <<Head(d)>> \o Del(Tail(d), n)

\* d[n] = item: a new key goes last, a key of d keeps its place
Put(d, item) ==
    IF Has(d, item.name)
    THEN [i \in 1..Len(d) |-> IF d[i].name = item.name THEN item ELSE d[i]]
    ELSE Append(d, item)

\* --------------------------------------------------------------- responses
\* jsonify({'success': ..., 'message': ...}), status.  `keys` is the set of
\* keys of the JSON body; a field whose key is absent holds a default.
Json(status, success, message) ==
    [status |-> status, keys |-> {"success", "message"}, success |-> success,
     message |-> message, recognized |-> FALSE, name |-> NoName,
     confidence |-> 0, faces |-> <<>>, count |-> 0]

NoRequest ==
    [op |-> "none", model |-> "face_recognition", name |-> NoName,
     image |-> MissingImage]

\* What a handler leaves behind: the response, the two stores and the
\* reference images as written, and its trace.
Outcome(r, fd, dd, files, st, sc, bm, bd) ==
    [resp |-> r, faces_data |-> fd, deepface_data |-> dd,
     deepface_files |-> files, steps |-> st, scan |-> sc,
     best_match |-> bm, best_distance |-> bd]

\* ------------------------------------------------------- image processing
\* base64_to_image: None (FALSE here) when the string does not decode
base64_to_image(image) == image.kind = "picture"

NoFaceMessage == "No face detected in the image"
MultipleFacesMessage ==
    "Multiple faces detected. Please use an image with only one face."

\* image_to_face_encoding: (encoding, None) or (None, message)
EncodingOfFirstFace(image) ==
    IF image.faces = 0
    THEN [encoding |-> 0, error |-> NoFaceMessage]
    ELSE [encoding |-> image.enc, error |-> "None"]

image_to_face_encoding(image) ==
    IF image.faces = 0
    THEN [encoding |-> 0, error |-> NoFaceMessage]
    ELSE IF image.faces > 1
    THEN [encoding |-> 0, error |-> MultipleFacesMessage]
    ELSE [encoding |-> image.enc, error |-> "None"]

\* save_image_for_deepface: the path, or None (FALSE here) when
\* image.save raises
save_image_for_deepface(image) == image.saves

\* face_recognition.face_distance([a], b)[0]
face_distance(a, b) == IF a >= b THEN a - b ELSE b - a

\* ----------------------------------------------------------- register_face
\* if not name or not image_base64
MissingFieldsNameOnly(name, image) == name = NoName

MissingFields(name, image) == name = NoName \/ image.kind = "missing"

\* if name in deepface_data / if name in faces_data
NameTakenNever(d, name) == FALSE

NameTaken(d, name) == Has(d, name)

register_face(data, fd, dd, files) ==
    LET name == data.name
        image == data.image
        keep(r, st) == Outcome(r, fd, dd, files, st, <<>>, NoName, FloatInf)
    IN
    IF MissingFields(name, image)
    THEN keep(Json(400, FALSE, "Name and image are required"), <<>>)
    ELSE IF ~base64_to_image(image)
    THEN keep(Json(400, FALSE, "Invalid image format"), <<"decode">>)
    ELSE IF data.model = "deepface"
    THEN
        IF NameTaken(dd, name)
        THEN keep(Json(400, FALSE, "Name already registered"),
                  <<"decode", "load_deepface">>)
        ELSE IF ~save_image_for_deepface(image)
        THEN keep(Json(400, FALSE, "Error saving image"),
                  <<"decode", "load_deepface", "save_image">>)
        ELSE Outcome(Json(200, TRUE, "Face registered successfully using DeepFace"),
                     fd, Put(dd, [name |-> name, image_path |-> name]),
                     files \cup {name},
                     <<"decode", "load_deepface", "save_image",
                       "save_deepface">>,
                     <<>>, NoName, FloatInf)
    ELSE
        LET enc == image_to_face_encoding(image) IN
        IF enc.error # "None"
        THEN keep(Json(400, FALSE, enc.error), <<"decode", "detect">>)
        ELSE IF NameTaken(fd, name)
        THEN keep(Json(400, FALSE, "Name already registered"),
                  <<"decode", "detect", "load_faces">>)
        ELSE
            LET fd2 == Put(fd, [name |-> name, encoding |-> enc.encoding]) IN
            \* save_faces_data has run when image.save raises
            IF ~image.saves
            THEN Outcome(Json(500, FALSE, "Error"), fd2, dd, files,
                         <<"decode", "detect", "load_faces", "save_faces",
                           "save_image">>,
                         <<>>, NoName, FloatInf)
            ELSE Outcome(Json(200, TRUE, "Face registered successfully"),
                         fd2, dd, files,
                         <<"decode", "detect", "load_faces", "save_faces",
                           "save_image">>,
                         <<>>, NoName, FloatInf)

\* ---------------------------------------------------------- recognize_face
\* if not deepface_data / if not faces_data
IsEmptyNever(d) == FALSE

IsEmpty(d) == d = <<>>

\* if distance < best_distance
CloserAlways(distance, best) == TRUE

CloserOrEqual(distance, best) == distance <= best

Closer(distance, best) == distance < best

\* The loop over faces_data.items(): every item is compared, the running
\* minimum is replaced on a closer one.
RECURSIVE ScanFaces(_, _, _, _, _)
ScanFaces(items, encoding, bm, bd, log) ==
    IF items = <<>>
    THEN [best_match |-> bm, best_distance |-> bd, scan |-> log]
    ELSE
        LET name == Head(items).name
            distance == face_distance(Head(items).encoding, encoding)
            entry == [name |-> name, ok |-> TRUE, distance |-> distance]
        IN
        IF Closer(distance, bd)
        THEN ScanFaces(Tail(items), encoding, name, distance,
                       Append(log, entry))
        ELSE ScanFaces(Tail(items), encoding, bm, bd, Append(log, entry))

\* verify_face_deepface: (result, None) or (None, message).  `outcome` is
\* what DeepFace.verify does when it is reached.
verify_face_deepface(image, name, files, outcome) ==
    LET failed(message) ==
            [result |-> FALSE, distance |-> VerifyFail, error |-> message]
    IN
    \* image.save(temp_path, "JPEG") raises
    IF ~image.saves THEN failed("Error in DeepFace verification")
    ELSE IF name \notin files THEN failed("Registered image not found")
    ELSE IF outcome = VerifyFail THEN failed("Error in DeepFace verification")
    ELSE [result |-> TRUE, distance |-> outcome, error |-> "None"]

\* if error: continue
Skip(error) == error # "None"

\* The loop over deepface_data.keys(): one verify_face_deepface call per
\* name; a call that reports an error is skipped.
RECURSIVE ScanDeepface(_, _, _, _, _, _, _)
ScanDeepface(items, image, files, verdict, bm, bd, log) ==
    IF items = <<>>
    THEN [best_match |-> bm, best_distance |-> bd, scan |-> log]
    ELSE
        LET name == Head(items).name
            v == verify_face_deepface(image, name, files, verdict[name])
            entry == [name |-> name, ok |-> v.error = "None",
                      distance |-> v.distance]
        IN
        IF Skip(v.error)
        THEN ScanDeepface(Tail(items), image, files, verdict, bm, bd,
                          Append(log, entry))
        \* if result and result['distance'] < best_distance
        ELSE IF v.result /\ Closer(v.distance, bd)
        THEN ScanDeepface(Tail(items), image, files, verdict, name,
                          v.distance, Append(log, entry))
        ELSE ScanDeepface(Tail(items), image, files, verdict, bm, bd,
                          Append(log, entry))

\* if best_distance <= recognition_threshold   (0.6)
AcceptEmbeddingStrict(bd) == bd < EmbeddingThreshold

AcceptEmbedding(bd) == bd <= EmbeddingThreshold

\* if best_match and best_distance <= recognition_threshold   (0.4)
AcceptDeepfaceAnyMatch(bm, bd) == bm # NoName

AcceptDeepface(bm, bd) == bm # NoName /\ bd <= DeepfaceThreshold

\* confidence = 1 - best_distance
EmbeddingConfidence(bd) == One - bd

Min(a, b) == IF a <= b THEN a ELSE b
Max(a, b) == IF a >= b THEN a ELSE b

\* confidence = max(0, min(1, 1 - best_distance / 1.0))
DeepfaceConfidence(bd) == Max(0, Min(One, One - bd))

Recognized(name, confidence) ==
    [Json(200, TRUE, "Face recognized") EXCEPT
        !.keys = {"success", "recognized", "name", "confidence", "message"},
        !.recognized = TRUE, !.name = name, !.confidence = confidence]

NotRecognized ==
    [Json(200, TRUE, "Face not recognized") EXCEPT
        !.keys = {"success", "recognized", "message"}]

NoFacesFound ==
    [Json(404, FALSE, "No registered faces found") EXCEPT
        !.keys = {"success", "message", "recognized"}]

recognize_face(data, fd, dd, files, verdict) ==
    LET image == data.image
        done(r, st, sc, bm, bd) == Outcome(r, fd, dd, files, st, sc, bm, bd)
        keep(r, st) == done(r, st, <<>>, NoName, FloatInf)
    IN
    IF image.kind = "missing"
    THEN keep(Json(400, FALSE, "Image is required"), <<>>)
    ELSE IF ~base64_to_image(image)
    THEN keep(Json(400, FALSE, "Invalid image format"), <<"decode">>)
    ELSE IF data.model = "deepface"
    THEN
        IF IsEmpty(dd)
        THEN keep(NoFacesFound, <<"decode", "load_deepface">>)
        ELSE
            LET s == ScanDeepface(dd, image, files, verdict, NoName,
                                  FloatInf, <<>>)
                st == <<"decode", "load_deepface", "scan">>
            IN
            IF AcceptDeepface(s.best_match, s.best_distance)
            THEN done(Recognized(s.best_match,
                                 DeepfaceConfidence(s.best_distance)),
                      st, s.scan, s.best_match, s.best_distance)
            ELSE done(NotRecognized, st, s.scan, s.best_match,
                      s.best_distance)
    ELSE
        LET enc == image_to_face_encoding(image) IN
        IF enc.error # "None"
        THEN keep(Json(400, FALSE, enc.error), <<"decode", "detect">>)
        ELSE IF IsEmpty(fd)
        THEN keep(NoFacesFound, <<"decode", "detect", "load_faces">>)
        ELSE
            LET s == ScanFaces(fd, enc.encoding, NoName, FloatInf, <<>>)
                st == <<"decode", "detect", "load_faces", "scan">>
            IN
            IF AcceptEmbedding(s.best_distance)
            THEN done(Recognized(s.best_match,
                                 EmbeddingConfidence(s.best_distance)),
                      st, s.scan, s.best_match, s.best_distance)
            ELSE done(NotRecognized, st, s.scan, s.best_match,
                      s.best_distance)

\* ---------------------------------------------------- get_registered_faces
\* set(seq)
SetOf(seq) == { seq[i] : i \in 1..Len(seq) }

\* list(S): the elements of a set in some order
RECURSIVE ListOf(_)
ListOf(S) ==
    IF S = {} THEN <<>>
    ELSE LET x == CHOOSE y \in S : TRUE IN <<x>> \o ListOf(S \ {x})

\* list(set(names))
DedupKeepAll(seq) == seq

Dedup(seq) == ListOf(SetOf(seq))

\* sorted(seq): insertion sort, ascending, keeps equal elements
RECURSIVE Insert(_, _)
Insert(sorted, x) ==
    IF sorted = <<>> THEN <<x>>
    ELSE IF x <= Head(sorted) THEN <<x>> \o sorted
    ELSE <<Head(sorted)>> \o Insert(Tail(sorted), x)

RECURSIVE Sorted(_)
Sorted(seq) ==
    IF seq = <<>> THEN <<>> ELSE Insert(Sorted(Tail(seq)), Head(seq))

get_registered_faces(fd, dd, files) ==
    LET all_names == Dedup(Keys(fd) \o Keys(dd)) IN
    Outcome([Json(200, TRUE, "None") EXCEPT
                !.keys = {"success", "faces", "count"},
                !.faces = Sorted(all_names), !.count = Len(all_names)],
            fd, dd, files, <<"load_faces", "load_deepface">>,
            <<>>, NoName, FloatInf)

\* -------------------------------------------------------------- delete_face
delete_face(name, fd, dd, files) ==
    LET in_faces == Has(fd, name)
        in_deepface == Has(dd, name)
        fd2 == IF in_faces THEN Del(fd, name) ELSE fd
        dd2 == IF in_deepface THEN Del(dd, name) ELSE dd
        \* os.remove(deepface_image_path) if it exists
        files2 == IF in_deepface THEN files \ {name} ELSE files
        deleted == in_faces \/ in_deepface
        st == <<"load_faces", "load_deepface">>
                \o (IF in_faces THEN <<"save_faces">> ELSE <<>>)
                \o (IF in_deepface THEN <<"save_deepface">> ELSE <<>>)
    IN
    IF ~deleted
    THEN Outcome(Json(404, FALSE, "Face not found"), fd2, dd2, files2, st,
                 <<>>, NoName, FloatInf)
    ELSE Outcome(Json(200, TRUE, "Face deleted successfully"), fd2, dd2,
                 files2, st, <<>>, NoName, FloatInf)

\* ----------------------------------------------------------- state machine
\* The threads of the server that each handle one register_face request
\* while the other is under way (app.run serves requests in threads).
Workers == {"first", "second"}

NoWorker == "none"

IdleWorker ==
    [pc |-> "idle", data |-> NoRequest, local |-> <<>>,
     resp |-> Json(0, FALSE, "None")]

Init ==
    /\ faces_data = <<>>
    /\ deepface_data = <<>>
    /\ deepface_files = {}
    /\ req = NoRequest
    /\ resp = Json(0, FALSE, "None")
    /\ steps = <<>>
    /\ scan = <<>>
    /\ best_match = NoName
    /\ best_distance = FloatInf
    /\ redelete = FALSE
    /\ workers = [w \in Workers |-> IdleWorker]
    /\ last_writer = [m \in Models |-> NoWorker]

\* One request handled from start to end.
Handle(r, o) ==
    /\ req' = r
    /\ resp' = o.resp
    /\ faces_data' = o.faces_data
    /\ deepface_data' = o.deepface_data
    /\ deepface_files' = o.deepface_files
    /\ steps' = o.steps
    /\ scan' = o.scan
    /\ best_match' = o.best_match
    /\ best_distance' = o.best_distance
    /\ redelete' =
        (/\ r.op = "delete" /\ req.op = "delete" /\ r.name = req.name
         /\ resp.status = 200)
    /\ UNCHANGED <<workers, last_writer>>

\* register_face for a body drawn from the given models and, for each
\* model, the given images
RegisterWith(models, images) ==
    \E n \in Names \cup {NoName}, m \in models :
      \E img \in images[m] :
        LET data == [op |-> "register", model |-> m, name |-> n,
                     image |-> img]
        IN Handle(data,
                  register_face(data, faces_data, deepface_data,
                                deepface_files))

\* What DeepFace.verify would answer for each registered name.  It is
\* reached only on the deepface path with a query image that
\* verify_face_deepface could save; elsewhere one verdict stands for all.
Verdicts(m, img, outcomes) ==
    IF m = "deepface" /\ img.kind = "picture" /\ img.saves
    THEN [KeySet(deepface_data) -> outcomes]
    ELSE {[n \in KeySet(deepface_data) |-> VerifyFail]}

\* recognize_face for a body drawn from the given models and, for each
\* model, the given images, the verifier answering from the given outcomes
RecognizeWith(models, images, outcomes) ==
    \E m \in models :
      \E img \in images[m] :
      \E verdict \in Verdicts(m, img, outcomes) :
        LET data == [op |-> "recognize", model |-> m, name |-> NoName,
                     image |-> img]
        IN Handle(data,
                  recognize_face(data, faces_data, deepface_data,
                                 deepface_files, verdict))

AllImages == [m \in Models |-> Images]

Register == RegisterWith(Models, AllImages)

Recognize == RecognizeWith(Models, AllImages, VerifyOutcomes)

List ==
    Handle([op |-> "list", model |-> "face_recognition", name |-> NoName,
            image |-> MissingImage],
           get_registered_faces(faces_data, deepface_data, deepface_files))

Delete ==
    \E n \in Names :
        Handle([op |-> "delete", model |-> "face_recognition", name |-> n,
                image |-> MissingImage],
               delete_face(n, faces_data, deepface_data, deepface_files))

\* Every request of the model, on both pipelines.
Next == Register \/ Recognize \/ List \/ Delete

Spec == Init /\ [][Next]_vars

\* The requests of the embedding pipeline (model 'face_recognition') with
\* every image, and the two requests that take no model.
RegisterEmbedding == RegisterWith({"face_recognition"}, AllImages)

RecognizeEmbedding ==
    RecognizeWith({"face_recognition"}, AllImages, {VerifyFail})

NextEmbedding == RegisterEmbedding \/ RecognizeEmbedding \/ List \/ Delete

SpecEmbedding == Init /\ [][NextEmbedding]_vars

\* The requests of the verification pipeline (model 'deepface') with every
\* verifier outcome.  That pipeline reads of an image only whether it
\* decodes and whether it saves, so one picture stands for each case.
DeepfaceImages ==
    {MissingImage, GarbageImage}
        \cup { p \in Images : p.kind = "picture" /\ p.faces = 1 /\ p.enc = 0 }

RegisterDeepface ==
    RegisterWith({"deepface"}, [m \in Models |-> DeepfaceImages])

RecognizeDeepface ==
    RecognizeWith({"deepface"}, [m \in Models |-> DeepfaceImages],
                  VerifyOutcomes)

NextDeepface == RegisterDeepface \/ RecognizeDeepface \/ List \/ Delete

SpecDeepface == Init /\ [][NextDeepface]_vars

\* Both pipelines together, for the properties of validation, of the two
\* stores and of their names: the encodings are the two ends of the range,
\* the verification pipeline gets the images that differ for it, and the
\* verifier fails or answers the least distance.
CoarseImages ==
    [m \in Models |->
        IF m = "deepface" THEN DeepfaceImages
        ELSE { p \in Images : p.enc = 0 \/ p.enc = MaxEnc }]

CoarseOutcomes == {VerifyFail, 0}

RegisterCoarse == RegisterWith(Models, CoarseImages)

RecognizeCoarse == RecognizeWith(Models, CoarseImages, CoarseOutcomes)

NextStores == RegisterCoarse \/ RecognizeCoarse \/ List \/ Delete

SpecStores == Init /\ [][NextStores]_vars

\* ------------------------------------------------- interleaved registration
\* Two register_face requests run in two threads.  No lock is held between
\* the load of a store and its write, so the steps of the two requests
\* interleave: the checks on the request, the load of the store with the
\* test of the name, the change of the loaded dict, the write of the whole
\* dict, the answer.  A load and a write of the file are each one step.

\* json.dump(faces_data, f) on a file opened with 'w': the file holds the
\* dict of the writer, whatever it held before
SaveMerged(current, local) ==
    current \o SelectSeq(local, LAMBDA item : ~Has(current, item.name))

SaveStore(current, local) == local

Answer(w, r) == [workers EXCEPT ![w].pc = "done", ![w].resp = r]

RaceFrame == UNCHANGED <<req, resp, steps, scan, best_match, best_distance,
                         redelete>>

\* the request arrives: required fields, decoding and, for the embedding
\* pipeline, detection, none of which reads a store
RaceBegin ==
    \E w \in Workers, n \in Names \cup {NoName}, m \in Models :
      \E img \in CoarseImages[m] :
        LET data == [op |-> "register", model |-> m, name |-> n,
                     image |-> img]
            begun == [workers EXCEPT ![w].data = data]
            reject(r) == [begun EXCEPT ![w].pc = "done", ![w].resp = r]
        IN
        /\ workers[w].pc = "idle"
        /\ workers' =
              IF MissingFields(n, img)
              THEN reject(Json(400, FALSE, "Name and image are required"))
              ELSE IF ~base64_to_image(img)
              THEN reject(Json(400, FALSE, "Invalid image format"))
              ELSE IF m # "deepface"
                      /\ image_to_face_encoding(img).error # "None"
              THEN reject(Json(400, FALSE,
                               image_to_face_encoding(img).error))
              ELSE [begun EXCEPT ![w].pc = "load"]
        /\ UNCHANGED <<faces_data, deepface_data, deepface_files,
                       last_writer>>
        /\ RaceFrame

\* deepface_data = load_deepface_data() / faces_data = load_faces_data(),
\* then the test of the name against the dict just loaded
RaceLoad ==
    \E w \in Workers :
        LET data == workers[w].data
            loaded == IF data.model = "deepface" THEN deepface_data
                      ELSE faces_data
        IN
        /\ workers[w].pc = "load"
        /\ workers' =
              IF NameTaken(loaded, data.name)
              THEN [workers EXCEPT
                      ![w].pc = "done", ![w].local = loaded,
                      ![w].resp = Json(400, FALSE, "Name already registered")]
              ELSE [workers EXCEPT ![w].pc = "mutate", ![w].local = loaded]
        /\ UNCHANGED <<faces_data, deepface_data, deepface_files,
                       last_writer>>
        /\ RaceFrame

\* deepface_data[name] = {...} after the image file is saved /
\* faces_data[name] = {...}: the entry goes into the thread's own dict
RaceMutate ==
    \E w \in Workers :
        LET data == workers[w].data
            local == workers[w].local
        IN
        /\ workers[w].pc = "mutate"
        /\ IF data.model = "deepface"
           THEN IF ~save_image_for_deepface(data.image)
                THEN /\ workers' =
                          Answer(w, Json(400, FALSE, "Error saving image"))
                     /\ UNCHANGED deepface_files
                ELSE /\ workers' =
                          [workers EXCEPT
                             ![w].pc = "write",
                             ![w].local =
                                 Put(local, [name |-> data.name,
                                             image_path |-> data.name])]
                     /\ deepface_files' = deepface_files \cup {data.name}
           ELSE /\ workers' =
                     [workers EXCEPT
                        ![w].pc = "write",
                        ![w].local =
                            Put(local,
                                [name |-> data.name,
                                 encoding |->
                                     image_to_face_encoding(data.image)
                                         .encoding])]
                /\ UNCHANGED deepface_files
        /\ UNCHANGED <<faces_data, deepface_data, last_writer>>
        /\ RaceFrame

\* save_deepface_data(deepface_data) and the answer /
\* save_faces_data(faces_data)
RaceWrite ==
    \E w \in Workers :
        LET data == workers[w].data
            local == workers[w].local
        IN
        /\ workers[w].pc = "write"
        /\ IF data.model = "deepface"
           THEN /\ deepface_data' = SaveStore(deepface_data, local)
                /\ workers' =
                     Answer(w, Json(200, TRUE,
                              "Face registered successfully using DeepFace"))
                /\ UNCHANGED faces_data
           ELSE /\ faces_data' = SaveStore(faces_data, local)
                /\ workers' = [workers EXCEPT ![w].pc = "save_image"]
                /\ UNCHANGED deepface_data
        /\ last_writer' = [last_writer EXCEPT ![data.model] = w]
        /\ UNCHANGED deepface_files
        /\ RaceFrame

\* image.save(image_path, "JPEG") and the answer of the embedding pipeline
RaceSaveImage ==
    \E w \in Workers :
        /\ workers[w].pc = "save_image"
        /\ workers' =
              IF ~workers[w].data.image.saves
              THEN Answer(w, Json(500, FALSE, "Error"))
              ELSE Answer(w, Json(200, TRUE, "Face registered successfully"))
        /\ UNCHANGED <<faces_data, deepface_data, deepface_files,
                       last_writer>>
        /\ RaceFrame

NextRace ==
    RaceBegin \/ RaceLoad \/ RaceMutate \/ RaceWrite \/ RaceSaveImage

SpecRace == Init /\ [][NextRace]_vars

\* ------------------------------------------------------------- properties
\* the record of store d under name n
Get(d, n) == d[CHOOSE i \in 1..Len(d) : d[i].name = n]

\* the store a request with model m works on
StoreFor(m, fd, dd) == IF m = "deepface" THEN dd ELSE fd

\* the request handled by this step carries an image that decodes
Decodes(r) == r.image.kind = "picture"

\* ... and, on the embedding pipeline, shows exactly one face
Encodes(r) == Decodes(r) /\ (r.model = "deepface" \/ r.image.faces = 1)

StoresUnchanged ==
    faces_data' = faces_data /\ deepface_data' = deepface_data

\* this step registers a name that the store of its pipeline holds
DuplicateRegister ==
    /\ req'.op = "register"
    /\ Has(StoreFor(req'.model, faces_data, deepface_data), req'.name)

\* C1 as stated, read for the requests that reach their pipeline (the image
\* is present and decodes): a register_face request for a name n that the
\* store of its pipeline already holds is answered 400 'Name already
\* registered' and leaves the record under n as it was.
C1_DuplicateAlwaysNamed ==
    [][DuplicateRegister /\ Decodes(req') =>
        /\ resp'.status = 400
        /\ resp'.message = "Name already registered"
        /\ Get(StoreFor(req'.model, faces_data', deepface_data'), req'.name)
             = Get(StoreFor(req'.model, faces_data, deepface_data),
                   req'.name)]_vars

\* C1 amended: a register_face request for a name n that the store of its
\* pipeline already holds is answered 400 and leaves both stores, so the
\* record under n, as they were; the message is 'Name already registered'
\* when the image is present, decodes and, on the embedding pipeline, shows
\* exactly one face, and the message of the failed earlier check otherwise.
C1_DuplicateRejected ==
    [][DuplicateRegister =>
        /\ resp'.status = 400
        /\ StoresUnchanged
        /\ Get(StoreFor(req'.model, faces_data', deepface_data'), req'.name)
             = Get(StoreFor(req'.model, faces_data, deepface_data),
                   req'.name)
        /\ Encodes(req') <=> resp'.message = "Name already registered"
        /\ ~Encodes(req') =>
             resp'.message \in
                {"Name and image are required", "Invalid image format",
                 NoFaceMessage, MultipleFacesMessage}]_vars

\* a duplicate registration has been rejected by name on the embedding
\* pipeline, with another encoding than the stored one
C1_Witness ==
    /\ req.op = "register" /\ req.model = "face_recognition"
    /\ resp.status = 400 /\ resp.message = "Name already registered"
    /\ Has(faces_data, req.name)
    /\ Get(faces_data, req.name).encoding # req.image.enc

\* this step runs face detection on the embedding pipeline and it fails
ReachesDetection ==
    /\ req'.op \in {"register", "recognize"}
    /\ req'.model = "face_recognition"
    /\ Decodes(req')
    /\ req'.op = "register" => req'.name # NoName

DetectionFails == ReachesDetection /\ req'.image.faces # 1

\* C2: on the embedding pipeline, when face detection on the submitted
\* image finds no face or more than one, register_face and recognize_face
\* answer 400 with the detection message and change neither store.
C2_DetectionFailureRejected ==
    [][(ReachesDetection => "detect" \in SetOf(steps'))
       /\ (DetectionFails =>
            /\ resp'.status = 400
            /\ resp'.success = FALSE
            /\ resp'.message =
                 (IF req'.image.faces = 0 THEN NoFaceMessage
                  ELSE MultipleFacesMessage)
            /\ scan' = <<>>
            /\ StoresUnchanged)]_vars

\* a registration of a new name was refused for showing several faces,
\* with both stores holding names
C2_Witness ==
    /\ req.op = "register" /\ req.model = "face_recognition"
    /\ req.image.faces > 1
    /\ ~Has(faces_data, req.name)
    /\ resp.status = 400 /\ resp.message = MultipleFacesMessage
    /\ faces_data # <<>> /\ deepface_data # <<>>

\* this step is a recognize_face request with an image, on an empty store
RecognizeOnEmpty ==
    /\ req'.op = "recognize"
    /\ req'.image.kind # "missing"
    /\ StoreFor(req'.model, faces_data, deepface_data) = <<>>

\* C3 as stated, read for the images that decode: with the store of the
\* selected pipeline empty, a recognize_face request that carries an image
\* answers 404 'No registered faces found' with recognized false and makes
\* no comparison.
C3_EmptyStoreAlways404 ==
    [][RecognizeOnEmpty /\ Decodes(req') =>
        /\ resp'.status = 404
        /\ resp'.message = "No registered faces found"
        /\ "recognized" \in resp'.keys /\ resp'.recognized = FALSE
        /\ scan' = <<>>]_vars

\* C3 amended: with the store of the selected pipeline empty, a
\* recognize_face request whose image decodes and, on the embedding
\* pipeline, shows exactly one face answers 404 'No registered faces found'
\* with recognized false; a request whose image fails those checks answers
\* 400; in both cases no comparison or verifier call is made.
C3_EmptyStoreNotFound ==
    [][RecognizeOnEmpty =>
        /\ scan' = <<>>
        /\ "scan" \notin SetOf(steps')
        /\ StoresUnchanged
        /\ Encodes(req') =>
             /\ resp'.status = 404
             /\ resp'.success = FALSE
             /\ resp'.message = "No registered faces found"
             /\ "recognized" \in resp'.keys /\ resp'.recognized = FALSE
        /\ ~Encodes(req') => resp'.status = 400]_vars

\* 404 on the verification pipeline while the embedding store holds a name
C3_Witness ==
    /\ req.op = "recognize" /\ req.model = "deepface"
    /\ deepface_data = <<>> /\ faces_data # <<>>
    /\ resp.status = 404 /\ resp.message = "No registered faces found"

\* the distances from encoding q to the stored encodings
Distances(fd, q) ==
    { face_distance(fd[i].encoding, q) : i \in 1..Len(fd) }

\* the least element of a non-empty set of numbers
Least(S) == CHOOSE d \in S : \A e \in S : d <= e

\* this step is a recognize_face request that reaches the scan of the
\* embedding store: the image decodes to one face, the store holds a name
EmbeddingScanRuns ==
    /\ req'.op = "recognize"
    /\ req'.model = "face_recognition"
    /\ Encodes(req')
    /\ faces_data # <<>>

\* C4: on the embedding pipeline with a non-empty store, when
\* recognize_face answers recognized=true the returned name is a stored
\* name at the minimum distance from the query over all stored vectors,
\* and the returned confidence is 1 minus that minimum.
C4_NearestNameAndConfidence ==
    [][(/\ req'.op = "recognize"
        /\ req'.model = "face_recognition"
        /\ faces_data # <<>>
        /\ "recognized" \in resp'.keys /\ resp'.recognized) =>
        LET q == req'.image.enc
            least == Least(Distances(faces_data, q))
        IN
        /\ Has(faces_data, resp'.name)
        /\ face_distance(Get(faces_data, resp'.name).encoding, q) = least
        /\ {"name", "confidence"} \subseteq resp'.keys
        /\ resp'.confidence = One - least]_vars

\* the spec's example at the scale of the model: A at 0.2 and B at 0.4
\* from the query give A with confidence 0.8
C4_Witness ==
    /\ req.op = "recognize" /\ req.model = "face_recognition"
    /\ Len(faces_data) = 2
    /\ face_distance(faces_data[1].encoding, req.image.enc) = 2
    /\ face_distance(faces_data[2].encoding, req.image.enc) = 1
    /\ resp.recognized /\ resp.name = faces_data[2].name
    /\ resp.confidence = 4

\* C5: on the embedding pipeline with a non-empty store and an encoded
\* query, recognize_face answers recognized=true exactly when the minimum
\* distance over the stored vectors is at most 0.6; above it the answer is
\* 200 with recognized=false and neither name nor confidence, though the
\* scan has tracked a best match.
C5_ThresholdDecides ==
    [][EmbeddingScanRuns =>
        LET least == Least(Distances(faces_data, req'.image.enc)) IN
        /\ resp'.status = 200
        /\ "recognized" \in resp'.keys
        /\ resp'.recognized <=> least <= EmbeddingThreshold
        /\ least > EmbeddingThreshold =>
             /\ resp'.recognized = FALSE
             /\ "name" \notin resp'.keys
             /\ "confidence" \notin resp'.keys
             /\ best_match' # NoName
             /\ Has(faces_data, best_match')
             /\ best_distance' = least]_vars

\* rejected above the threshold with a best match tracked
C5_Witness ==
    /\ req.op = "recognize" /\ req.model = "face_recognition"
    /\ resp.status = 200 /\ resp.recognized = FALSE
    /\ "name" \notin resp.keys
    /\ best_match # NoName /\ best_distance > EmbeddingThreshold
    /\ Len(faces_data) = 2

\* accepted at exactly the threshold
C5_WitnessAtThreshold ==
    /\ req.op = "recognize" /\ req.model = "face_recognition"
    /\ resp.recognized /\ best_distance = EmbeddingThreshold

InSomeStore(n) == Has(faces_data, n) \/ Has(deepface_data, n)

\* C6: for a name n in at least one store, of two delete_face(n) requests
\* in a row the first answers 200 and the second 404, and the second
\* changes neither store.
C6_SecondDeleteNotFound ==
    [][req'.op = "delete" =>
        /\ InSomeStore(req'.name) => resp'.status = 200
        /\ (req.op = "delete" /\ req.name = req'.name /\ resp.status = 200)
             => (resp'.status = 404 /\ StoresUnchanged)]_vars

\* a delete answered 404 right after the same delete was answered 200
C6_Witness ==
    /\ redelete
    /\ req.op = "delete" /\ resp.status = 404
    /\ ~Has(faces_data, req.name) /\ ~Has(deepface_data, req.name)

\* C7: delete_face(n) answers 200 exactly when n is in the embedding store
\* or in the verification store, and 404 exactly when it is in neither;
\* after a 200, n is in neither store and the records of the other names
\* are unchanged in both.
C7_DeleteFrame ==
    [][req'.op = "delete" =>
        LET n == req'.name IN
        /\ resp'.status = 200 <=> InSomeStore(n)
        /\ resp'.status = 404 <=> ~InSomeStore(n)
        /\ resp'.status = 200 =>
             /\ ~Has(faces_data', n) /\ ~Has(deepface_data', n)
             /\ \A k \in Names \ {n} :
                  /\ Has(faces_data', k) <=> Has(faces_data, k)
                  /\ Has(deepface_data', k) <=> Has(deepface_data, k)
                  /\ Has(faces_data, k) =>
                       Get(faces_data', k) = Get(faces_data, k)
                  /\ Has(deepface_data, k) =>
                       Get(deepface_data', k) = Get(deepface_data, k)
             /\ Len(faces_data') =
                  Len(faces_data) - (IF Has(faces_data, n) THEN 1 ELSE 0)
             /\ Len(deepface_data') =
                  Len(deepface_data)
                    - (IF Has(deepface_data, n) THEN 1 ELSE 0)]_vars

\* a delete answered 200 for a name that only the verification store
\* held, while both stores keep another name
C7_Witness ==
    /\ req.op = "delete" /\ resp.status = 200
    /\ steps = <<"load_faces", "load_deepface", "save_deepface">>
    /\ faces_data # <<>> /\ deepface_data # <<>>

\* C8: get_registered_faces returns the union of the names of the two
\* stores in ascending order, each name once, with count the number of
\* distinct names, and changes neither store.
C8_SortedUnion ==
    [][req'.op = "list" =>
        LET all == KeySet(faces_data) \cup KeySet(deepface_data) IN
        /\ resp'.status = 200
        /\ {"faces", "count"} \subseteq resp'.keys
        /\ SetOf(resp'.faces) = all
        /\ \A i \in 1..(Len(resp'.faces) - 1) :
             resp'.faces[i] < resp'.faces[i + 1]
        /\ resp'.count = Cardinality(all)
        /\ StoresUnchanged]_vars

\* a listing of two names, the greater registered first, one of them in
\* both stores
C8_Witness ==
    /\ req.op = "list" /\ resp.count = 2 /\ resp.faces = <<1, 2>>
    /\ Len(faces_data) = 2 /\ faces_data[1].name = 2
    /\ deepface_data # <<>>

\* C9: a register_face request whose name or image is missing or empty is
\* answered 400 'Name and image are required' on either pipeline, before
\* any decoding, detection or store access, and changes neither store.
C9_RequiredFields ==
    [][(req'.op = "register"
        /\ (req'.name = NoName \/ req'.image.kind = "missing")) =>
        /\ resp'.status = 400
        /\ resp'.success = FALSE
        /\ resp'.message = "Name and image are required"
        /\ steps' = <<>>
        /\ StoresUnchanged
        /\ deepface_files' = deepface_files]_vars

\* a registration with a name but no image refused on the verification
\* pipeline
C9_Witness ==
    /\ req.op = "register" /\ req.model = "deepface"
    /\ req.name # NoName /\ req.image.kind = "missing"
    /\ resp.status = 400 /\ resp.message = "Name and image are required"
    /\ steps = <<>>

\* this step is a recognize_face request that reaches the verification
\* pipeline (its image is present and decodes) with a name registered there
DeepfaceScanRuns ==
    /\ req'.op = "recognize"
    /\ req'.model = "deepface"
    /\ Decodes(req')
    /\ deepface_data # <<>>

\* the positions of the comparisons of a scan that succeeded
Succeeded(sc) == { i \in 1..Len(sc) : sc[i].ok }

\* C10: on the verification pipeline with a non-empty store,
\* recognize_face calls the verifier once per registered name; a name
\* whose call fails is skipped and the scan goes on; the answer is
\* recognized=true with name m exactly when some comparison succeeded, m
\* is at the minimum distance among the successful ones and that distance
\* is at most 0.4; when every comparison fails the answer is 200 with
\* recognized=false.
C10_VerificationScan ==
    [][DeepfaceScanRuns =>
        LET sc == scan'
            good == Succeeded(sc)
            least == Least({ sc[i].distance : i \in good })
        IN
        /\ Len(sc) = Len(deepface_data)
        /\ \A i \in 1..Len(sc) : sc[i].name = deepface_data[i].name
        /\ \A i \in 1..Len(sc) :
             sc[i].ok <=>
                /\ req'.image.saves
                /\ sc[i].name \in deepface_files
                /\ sc[i].distance # VerifyFail
        /\ resp'.status = 200
        /\ "recognized" \in resp'.keys
        /\ resp'.recognized <=> (good # {} /\ least <= DeepfaceThreshold)
        /\ resp'.recognized =>
             /\ "name" \in resp'.keys
             /\ \E i \in good :
                  sc[i].name = resp'.name /\ sc[i].distance = least
        /\ good = {} => resp'.recognized = FALSE]_vars

\* the first registered name's comparison failed, the second one's gave a
\* distance within the threshold and is the answer
C10_Witness ==
    /\ req.op = "recognize" /\ req.model = "deepface"
    /\ Len(scan) = 2
    /\ ~scan[1].ok /\ scan[2].ok
    /\ resp.recognized /\ resp.name = scan[2].name

\* every comparison failed: 200 with recognized=false
C10_WitnessAllFail ==
    /\ req.op = "recognize" /\ req.model = "deepface"
    /\ Len(scan) = 2 /\ Succeeded(scan) = {}
    /\ resp.status = 200 /\ resp.recognized = FALSE

\* the place of name n in store d
Pos(d, n) == CHOOSE i \in 1..Len(d) : d[i].name = n

\* store e follows store d in insertion order: the names of d that are
\* still in e keep their relative order and a name new in e is last
InsertionOrderKept(d, e) ==
    \/ e = d
    \/ /\ \A a, b \in KeySet(d) \cap KeySet(e) :
            Pos(d, a) < Pos(d, b) <=> Pos(e, a) < Pos(e, b)
       /\ \A n \in KeySet(e) \ KeySet(d) : Pos(e, n) = Len(e)

\* the first position of a scan among the successful comparisons at the
\* least distance
FirstLeast(sc) ==
    LET good == Succeeded(sc)
        least == Least({ sc[i].distance : i \in good })
    IN Least({ i \in good : sc[i].distance = least })

\* C12: both matching scans replace the running minimum only on a strictly
\* smaller distance, so among several stored names at the same minimum
\* distance recognize_face reports the one that comes first in the store's
\* iteration order, which is the insertion order of the registrations that
\* survive.
C12_FirstSeenWinsTies ==
    [][/\ InsertionOrderKept(faces_data, faces_data')
       /\ InsertionOrderKept(deepface_data, deepface_data')
       /\ EmbeddingScanRuns =>
            LET q == req'.image.enc
                least == Least(Distances(faces_data, q))
                first == Least({ i \in 1..Len(faces_data) :
                           face_distance(faces_data[i].encoding, q) = least })
            IN
            /\ best_match' = faces_data[first].name
            /\ best_distance' = least
            /\ resp'.recognized => resp'.name = faces_data[first].name
       /\ (DeepfaceScanRuns /\ Succeeded(scan') # {}) =>
            LET first == deepface_data[FirstLeast(scan')].name IN
            /\ \A i \in 1..Len(scan') : scan'[i].name = deepface_data[i].name
            /\ best_match' = first
            /\ resp'.recognized => resp'.name = first]_vars

\* two stored vectors at the same distance within the threshold, the name
\* registered first being the greater of the two: it is the answer
C12_Witness ==
    /\ req.op = "recognize" /\ req.model = "face_recognition"
    /\ Len(faces_data) = 2
    /\ faces_data[1].name > faces_data[2].name
    /\ face_distance(faces_data[1].encoding, req.image.enc)
         = face_distance(faces_data[2].encoding, req.image.enc)
    /\ resp.recognized /\ resp.name = faces_data[1].name

\* the same on the verification pipeline
C12_WitnessDeepface ==
    /\ req.op = "recognize" /\ req.model = "deepface"
    /\ Len(scan) = 2 /\ scan[1].ok /\ scan[2].ok
    /\ scan[1].distance = scan[2].distance
    /\ scan[1].name > scan[2].name
    /\ resp.recognized /\ resp.name = scan[1].name

\* C13: a register_face request answered 400 or 500 leaves the embedding
\* store and the verification store as they were before it, also when
\* writing the reference image fails during the request.
C13_FailedRegisterKeepsStores ==
    [][(req'.op = "register" /\ resp'.status \in {400, 500}) =>
        StoresUnchanged]_vars

\* what holds of the code: a 400 leaves both stores as they were, and a
\* 500 is answered only after faces_data.json has taken the new name
C13_OnlyServerErrorPersists ==
    [][req'.op = "register" =>
        /\ resp'.status = 400 => StoresUnchanged
        /\ resp'.status = 500 =>
             /\ req'.model = "face_recognition"
             /\ ~Has(faces_data, req'.name)
             /\ Has(faces_data', req'.name)
             /\ deepface_data' = deepface_data]_vars


\* a worker whose register_face request was answered with success
Registered(w) == workers[w].pc = "done" /\ workers[w].resp.status = 200

\* two requests for different names on the same pipeline, both answered
\* with success
BothRegistered(v, w) ==
    /\ v # w
    /\ Registered(v) /\ Registered(w)
    /\ workers[v].data.model = workers[w].data.model
    /\ workers[v].data.name # workers[w].data.name

\* C11: when register_face requests interleave at the steps load store /
\* change in memory / write store, the last writer wins on the whole store:
\* the persisted store of a pipeline is exactly the dict of the worker that
\* wrote it last, so of two requests for different names that both answered
\* success the persisted store holds the name of the last writer, and holds
\* the other name only if the last writer had loaded it.
C11_LastWriterWins ==
    /\ \A m \in Models :
         last_writer[m] # NoWorker =>
             StoreFor(m, faces_data, deepface_data)
                 = workers[last_writer[m]].local
    /\ \A v, w \in Workers :
         (BothRegistered(v, w) /\ last_writer[workers[w].data.model] = w) =>
             LET store == StoreFor(workers[w].data.model, faces_data,
                                   deepface_data)
             IN /\ Has(store, workers[w].data.name)
                /\ Has(store, workers[v].data.name)
                     <=> Has(workers[w].local, workers[v].data.name)

\* both requests answered success and the persisted store holds only one of
\* the two names
C11_LostUpdate ==
    \E v, w \in Workers :
        /\ BothRegistered(v, w)
        /\ LET store == StoreFor(workers[w].data.model, faces_data,
                                 deepface_data)
           IN /\ Has(store, workers[w].data.name)
              /\ ~Has(store, workers[v].data.name)
              /\ Len(store) = 1

\* the same on the verification pipeline
C11_LostUpdateDeepface ==
    \E v, w \in Workers :
        /\ BothRegistered(v, w)
        /\ workers[w].data.model = "deepface"
        /\ KeySet(deepface_data) = {workers[w].data.name}
        /\ deepface_files = {workers[v].data.name, workers[w].data.name}

====
